---- MODULE Spec2Model ----
(***************************************************************************)
(* Model of the certificate manager of src/src/utils/certificate.py        *)
(* (class CertificateManager) and of the deployment bootstrap of           *)
(* src/railway_init.py (setup_certificates, main).                         *)
(*                                                                         *)
(* Spec      every method call is one step (single-threaded callers).      *)
(* BootSpec  process start: main() of the bootstrap with the manager.      *)
(* StepSpec  setup_certificates and get_cert_and_key_files, one system     *)
(*           call per step.                                                *)
(* ConcSpec  _load_certificate and sign_data run in two threads, one       *)
(*           attribute read or write per step.                             *)
(***************************************************************************)
EXTENDS Integers, FiniteSets, Sequences, TLC

\* ------------------------------------------------------------------ bounds
MaxTime == 3           \* the clock runs over 0..MaxTime
DayTicks == 2          \* clock ticks per day (timedelta.days granularity)
MaxTempFiles == 2      \* temporary files that may exist at once

\* ------------------------------------------------------------ input space
None == "None"
Absent == "Absent"      \* no file at cert_path
Garbage == "Garbage"    \* a file that is no PKCS12 container

\* PKCS12 containers the file at cert_path may hold.  A, B and W hold a key
\* and a leaf certificate; CertOnly holds no key, KeyOnly no certificate.
Containers == {"A", "B", "W", "CertOnly", "KeyOnly"}
FullContainers == {"A", "B"}
FileContents == {Absent, Garbage} \cup Containers
Passwords == {"p1", "p2"}
Data == {"d1"}

HasKey(c) == c # "CertOnly"
HasCert(c) == c # "KeyOnly"
ContainerPassword(c) == IF c = "W" THEN "p2" ELSE "p1"
\* validity window of the certificate of container c
NotBefore(c) == IF c = "A" THEN 1 ELSE 0
NotAfter(c) == IF c = "A" THEN 2 ELSE IF c = "B" THEN 3 ELSE 1

\* ------------------------------------------- inputs of the bootstrap
\* Values of the environment variables CERTIFICATE_CERT_PEM / _KEY_PEM:
\* unset (or empty), valid base64, or text b64decode rejects.
EnvValues == {"unset", "valid", "invalid"}
\* Which call of the try block fails, if any: write_bytes before it creates
\* the file ("cert", "key"), write_bytes after it created the file
\* ("cert_partial", "key_partial"), or os.chmod.
WriteFaults == {"none", "cert", "cert_partial", "key", "key_partial", "chmod"}
\* The process umask: write_bytes creates a file with mode 0666 & ~umask.
Umasks == {"022", "077"}
CreateMode(umask) == IF umask = "077" THEN "0600" ELSE "0644"
OwnerOnly(mode) == mode = "0600"

\* What setup_certificates reads from its environment.
BootInputs == [certEnv : EnvValues, keyEnv : EnvValues,
               fault : WriteFaults, umask : Umasks]
Unread == [certEnv |-> "unread", keyEnv |-> "unread",
           fault |-> "unread", umask |-> "unread"]

\* The bootstrap before main() runs: either PEM file may be left from an
\* earlier run, key.pem with either mode.
BootStates ==
    {b \in [certPem : BOOLEAN, keyPem : BOOLEAN, keyMode : {"none", "0600", "0644"},
            keyWritten : {FALSE}, in : {Unread}, pc : {"idle"},
            branch : {"not_run"}] :
        b.keyPem <=> b.keyMode # "none"}

VARIABLES
    file,          \* content of the file at self.cert_path
    password,      \* self.password
    certificate,   \* self._certificate: None or the container it came from
    private_key,   \* self._private_key: None or the container it came from
    now,           \* the UTC clock
    ret,           \* outcome of the call the last step made: [op, kind, val]
                   \* (NoCall after a step of the environment)
    tempFiles,     \* temporary files on disk: [id, content, mode]
    openFds,       \* ids of temp files whose descriptor is still open
    tmpCall,       \* the running get_cert_and_key_files call, step by step:
                   \* [pc, certId, keyId, pending]
    boot,          \* bootstrap: certificados/cert.pem and key.pem (existence,
                   \* key.pem's mode, whether this run wrote key material to
                   \* it), the inputs main() read, its position and branch
    loadPc, ldKey, ldCert,                  \* thread running _load_certificate
    signPc, sData, sNow, sNb, sNa    \* thread running sign_data:
                   \* sNb, sNa = the certificate objects lines 68, 69 read

mgrVars == <<certificate, private_key>>
cfgVars == <<file, password>>
loadVars == <<loadPc, ldKey, ldCert>>
signVars == <<signPc, sData, sNow, sNb, sNa>>
fsVars == <<tempFiles, openFds, tmpCall>>
vars == <<file, password, certificate, private_key, now, ret, tempFiles,
          openFds, tmpCall, boot, loadVars, signVars>>

\* ------------------------------------------------------- call outcomes
Return(op, v) == [op |-> op, kind |-> "return", val |-> v]
Raise(op, type, msg) == [op |-> op, kind |-> "raise",
                         val |-> [type |-> type, msg |-> msg]]
NoCall == [op |-> "none", kind |-> "none", val |-> [none |-> TRUE]]
\* no get_cert_and_key_files call is running
NoTmpCall == [pc |-> "idle", certId |-> 0, keyId |-> 0, pending |-> NoCall]

MsgCertNotLoaded == "Certificado nao carregado"
MsgKeyNotLoaded == "Chave privada nao carregada"
MsgExpired == "Certificado fora da validade"
MsgLoadFailed == "Falha ao carregar certificado"

\* ------------------------------------------------- _load_certificate
\* open(self.cert_path, 'rb') and pkcs12.load_key_and_certificates(...):
\* either an exception or the pair (private_key, certificate), each of
\* which is None when the container does not hold it.
ReadContainer(content, pw) ==
    IF content = Absent THEN [ok |-> FALSE, cause |-> "FileNotFoundError"]
    ELSE IF content = Garbage THEN [ok |-> FALSE, cause |-> "InvalidPKCS12"]
    ELSE IF ContainerPassword(content) # pw
        THEN [ok |-> FALSE, cause |-> "InvalidPassword"]
    ELSE [ok |-> TRUE,
          key |-> IF HasKey(content) THEN content ELSE None,
          cert |-> IF HasCert(content) THEN content ELSE None]

\* LoadOutcome with the fields reset before the container is parsed, so
\* that a failing load leaves the manager empty.
LoadOutcome_ResetFirst(content, pw, oldCert, oldKey) ==
    LET r == ReadContainer(content, pw) IN
    IF r.ok
        THEN [cert |-> r.cert, key |-> r.key,
              ret |-> Return("_load_certificate", [none |-> TRUE])]
        ELSE [cert |-> None, key |-> None,
              ret |-> [op |-> "_load_certificate", kind |-> "raise",
                       val |-> [type |-> "ValueError", msg |-> MsgLoadFailed,
                                cause |-> r.cause]]]

\* The manager fields and the outcome of one whole _load_certificate call.
LoadOutcome(content, pw, oldCert, oldKey) ==
    LET r == ReadContainer(content, pw) IN
    IF r.ok
        THEN [cert |-> r.cert, key |-> r.key,
              ret |-> Return("_load_certificate", [none |-> TRUE])]
        ELSE [cert |-> oldCert, key |-> oldKey,
              ret |-> [op |-> "_load_certificate", kind |-> "raise",
                       val |-> [type |-> "ValueError", msg |-> MsgLoadFailed,
                                cause |-> r.cause]]]

\* __init__: both fields None, then a load if the path exists.  A load that
\* raises leaves no manager object, so such configurations do not start.
Constructible(content, pw) ==
    content = Absent \/ ReadContainer(content, pw).ok

Init ==
    /\ file \in FileContents
    /\ password \in Passwords
    /\ Constructible(file, password)
    /\ LET o == LoadOutcome(file, password, None, None) IN
          /\ certificate = o.cert
          /\ private_key = o.key
    /\ now = 0
    /\ ret = NoCall
    /\ tempFiles = {}
    /\ openFds = {}
    /\ tmpCall = NoTmpCall
    /\ boot \in BootStates
    /\ loadPc = "idle" /\ ldKey = None /\ ldCert = None
    /\ signPc = "idle" /\ sData = None
    /\ sNow = 0 /\ sNb = None /\ sNa = None

\* ------------------------------------------------------- environment
\* The file at cert_path is created, replaced or removed.
WriteFile ==
    /\ \E c \in FileContents : c # file /\ file' = c
    /\ ret' = NoCall
    /\ UNCHANGED <<password, mgrVars, now, fsVars, boot, loadVars, signVars>>

Tick ==
    /\ now < MaxTime
    /\ now' = now + 1
    /\ ret' = NoCall
    /\ UNCHANGED <<cfgVars, mgrVars, fsVars, boot, loadVars, signVars>>

\* A temporary file is removed by the caller that received its path (or by
\* whoever cleans the temp directory).
DeleteTemp ==
    /\ tmpCall.pc = "idle"
    /\ \E f \in tempFiles : tempFiles' = tempFiles \ {f}
    /\ ret' = NoCall
    /\ UNCHANGED <<cfgVars, mgrVars, now, openFds, tmpCall, boot, loadVars, signVars>>

\* ---------------------------------------------------- read operations
\* is_valid without the upper end of the window
is_valid_NoUpperBound(cert, t) ==
    IF cert = None THEN FALSE
    ELSE NotBefore(cert) <= t

\* is_valid, lines 57-78, with t the value datetime.now(timezone.utc) gave
is_valid(cert, t) ==
    IF cert = None THEN FALSE
    ELSE NotBefore(cert) <= t /\ t <= NotAfter(cert)

\* get_subject_name, lines 80-93 (every modelled certificate has a CN)
get_subject_name(cert) ==
    IF cert = None THEN Return("get_subject_name", [text |-> MsgCertNotLoaded])
    ELSE Return("get_subject_name", [text |-> <<"CN", cert>>])

\* get_expiration_date, lines 95-105
get_expiration_date(cert) ==
    IF cert = None THEN Return("get_expiration_date", [none |-> TRUE])
    ELSE Return("get_expiration_date", [date |-> NotAfter(cert)])

\* get_certificate_info, lines 107-128.  The clock is read twice: t1 inside
\* is_valid() (line 126 -> line 67) and t2 at line 127.
get_certificate_info(cert, t1, t2) ==
    IF cert = None
        THEN Return("get_certificate_info", [status |-> MsgCertNotLoaded])
        ELSE Return("get_certificate_info",
                    [subject |-> get_subject_name(cert).val.text,
                     issuer |-> <<"issuerCN", cert>>,
                     serial_number |-> <<"serial", cert>>,
                     valid_from |-> NotBefore(cert),
                     valid_until |-> NotAfter(cert),
                     is_valid |-> is_valid(cert, t1),
                     days_until_expiration |-> (NotAfter(cert) - t2) \div DayTicks])

\* sign_data, lines 130-155
sign_data(cert, key, t, data) ==
    IF key = None THEN Raise("sign_data", "ValueError", MsgKeyNotLoaded)
    ELSE IF ~is_valid(cert, t) THEN Raise("sign_data", "ValueError", MsgExpired)
    ELSE Return("sign_data", [sig |-> <<"PKCS1v15-SHA256", key, data>>])

\* get_certificate_pem without the guard of line 164: public_bytes is
\* looked up on None
get_certificate_pem_Unguarded(cert) ==
    IF cert = None THEN Raise("get_certificate_pem", "AttributeError", "public_bytes")
    ELSE Return("get_certificate_pem", [pem |-> <<"CERTIFICATE", cert>>])

\* get_certificate_pem, lines 157-171
get_certificate_pem(cert) ==
    IF cert = None THEN Raise("get_certificate_pem", "ValueError", MsgCertNotLoaded)
    ELSE Return("get_certificate_pem", [pem |-> <<"CERTIFICATE", cert>>])

\* get_private_key_pem, lines 173-189
get_private_key_pem(key) ==
    IF key = None THEN Raise("get_private_key_pem", "ValueError", MsgKeyNotLoaded)
    ELSE Return("get_private_key_pem", [pem |-> <<"RSA PRIVATE KEY", key>>])

\* The two smallest unused temp-file ids (tempfile.mkstemp names are fresh).
UsedIds == {f.id : f \in tempFiles}
FreshId(used) == CHOOSE i \in 1..(MaxTempFiles + 2) :
                    /\ i \notin used
                    /\ \A j \in 1..(MaxTempFiles + 2) : j \notin used => i <= j

EmptyPem == <<>>
TempFile(i, content) == [id |-> i, content |-> content, mode |-> "0600"]

\* get_cert_and_key_files, lines 191-219: the files left on disk and the
\* outcome.  Both files are created first (lines 201-202); a failing export
\* propagates through the finally block, which only closes descriptors.
get_cert_and_key_files(cert, key, certId, keyId) ==
    LET c == get_certificate_pem(cert)
        k == get_private_key_pem(key)
    IN  IF c.kind = "raise"
            THEN [files |-> {TempFile(certId, EmptyPem), TempFile(keyId, EmptyPem)},
                  ret |-> [c EXCEPT !.op = "get_cert_and_key_files"]]
        ELSE IF k.kind = "raise"
            THEN [files |-> {TempFile(certId, c.val.pem), TempFile(keyId, EmptyPem)},
                  ret |-> [k EXCEPT !.op = "get_cert_and_key_files"]]
        ELSE [files |-> {TempFile(certId, c.val.pem), TempFile(keyId, k.val.pem)},
              ret |-> Return("get_cert_and_key_files",
                             [cert_path |-> certId, key_path |-> keyId])]

\* ------------------------------------------------- manager operations
\* A call of _load_certificate on the constructed manager.
LoadCertificate ==
    /\ LET o == LoadOutcome(file, password, certificate, private_key) IN
          /\ certificate' = o.cert
          /\ private_key' = o.key
          /\ ret' = o.ret
    /\ UNCHANGED <<cfgVars, now, fsVars, boot, loadVars, signVars>>

\* ReadFrame of a read operation that drops the key object once it is done
ReadFrame_ReleasesKey ==
    /\ private_key' = None
    /\ UNCHANGED <<cfgVars, certificate, now, fsVars, boot, loadVars, signVars>>

\* What is_valid, get_subject_name, get_expiration_date, sign_data and the
\* two PEM exports leave alone: none of them assigns an attribute of self
\* or touches a file.
ReadFrame == UNCHANGED <<cfgVars, mgrVars, now, fsVars, boot, loadVars, signVars>>

IsValid ==
    /\ ret' = Return("is_valid", [bool |-> is_valid(certificate, now)])
    /\ ReadFrame

GetSubjectName ==
    /\ ret' = get_subject_name(certificate)
    /\ ReadFrame

GetExpirationDate ==
    /\ ret' = get_expiration_date(certificate)
    /\ ReadFrame

\* The clock may advance between the two reads of one call.
GetCertificateInfo ==
    /\ \E t2 \in now..MaxTime :
          /\ t2 <= now + 1
          /\ ret' = get_certificate_info(certificate, now, t2)
          /\ now' = t2
    /\ UNCHANGED <<cfgVars, mgrVars, fsVars, boot, loadVars, signVars>>

SignData ==
    /\ \E d \in Data : ret' = sign_data(certificate, private_key, now, d)
    /\ ReadFrame

GetCertificatePem ==
    /\ ret' = get_certificate_pem(certificate)
    /\ ReadFrame

GetPrivateKeyPem ==
    /\ ret' = get_private_key_pem(private_key)
    /\ ReadFrame

GetCertAndKeyFiles ==
    /\ tmpCall.pc = "idle"
    /\ Cardinality(tempFiles) + 2 <= MaxTempFiles
    /\ LET certId == FreshId(UsedIds)
           keyId == FreshId(UsedIds \cup {certId})
           o == get_cert_and_key_files(certificate, private_key, certId, keyId)
       IN  /\ tempFiles' = tempFiles \cup o.files
           /\ ret' = o.ret
    /\ UNCHANGED <<cfgVars, mgrVars, now, openFds, tmpCall, boot, loadVars, signVars>>

\* ---------------------------------------------------------- bootstrap
\* The methods class CertificateManager defines (lines 16-219).
ManagerMethods ==
    {"__init__", "_load_certificate", "is_valid", "get_subject_name",
     "get_expiration_date", "get_certificate_info", "sign_data",
     "get_certificate_pem", "get_private_key_pem", "get_cert_and_key_files"}

\* Path.write_bytes on key.pem: an existing file keeps its mode.
KeyModeAfterWrite(keyPem, keyMode, umask) ==
    IF keyPem THEN keyMode ELSE CreateMode(umask)

\* setup_certificates whose except block reports success: a failure while
\* key.pem is decoded or written is logged and True is returned.
setup_certificates_MasksKeyFailure(certPem, keyPem, keyMode, in) ==
    LET same == [certPem |-> certPem, keyPem |-> keyPem, keyMode |-> keyMode,
                 keyWritten |-> FALSE]
    IN
    IF certPem /\ keyPem
        THEN [ok |-> TRUE] @@ same
    ELSE IF in.certEnv = "unset" \/ in.keyEnv = "unset"
        THEN [ok |-> FALSE] @@ same
    ELSE IF in.certEnv = "invalid" \/ in.fault \in {"cert", "cert_partial"}
        THEN [ok |-> FALSE] @@ same
    ELSE IF in.keyEnv = "invalid" \/ in.fault = "key"
        THEN [ok |-> TRUE] @@ [same EXCEPT !.certPem = TRUE]
    ELSE [ok |-> in.fault = "none"] @@
         [same EXCEPT !.certPem = TRUE, !.keyPem = TRUE, !.keyMode = "0600",
                      !.keyWritten = TRUE]

\* setup_certificates, railway_init.py lines 10-63: its return value and
\* the state of certificados/cert.pem and key.pem afterwards.
setup_certificates(certPem, keyPem, keyMode, in) ==
    LET same == [certPem |-> certPem, keyPem |-> keyPem, keyMode |-> keyMode,
                 keyWritten |-> FALSE]
        written == KeyModeAfterWrite(keyPem, keyMode, in.umask)
    IN
    IF certPem /\ keyPem
        THEN [ok |-> TRUE] @@ same
    ELSE IF in.certEnv = "unset" \/ in.keyEnv = "unset"
        THEN [ok |-> FALSE] @@ same
    ELSE IF in.certEnv = "invalid" \/ in.fault = "cert"
        THEN [ok |-> FALSE] @@ same
    ELSE IF in.fault = "cert_partial"
        THEN [ok |-> FALSE] @@ [same EXCEPT !.certPem = TRUE]
    ELSE IF in.keyEnv = "invalid" \/ in.fault = "key"
        THEN [ok |-> FALSE] @@ [same EXCEPT !.certPem = TRUE]
    ELSE IF in.fault = "key_partial"
        THEN [ok |-> FALSE] @@
             [same EXCEPT !.certPem = TRUE, !.keyPem = TRUE, !.keyMode = written]
    ELSE IF in.fault = "chmod"
        THEN [ok |-> FALSE] @@
             [same EXCEPT !.certPem = TRUE, !.keyPem = TRUE, !.keyMode = written,
                          !.keyWritten = TRUE]
    ELSE [ok |-> TRUE] @@
         [same EXCEPT !.certPem = TRUE, !.keyPem = TRUE, !.keyMode = "0600",
                      !.keyWritten = TRUE]

\* certificate_manager.reload() at railway_init.py line 79: attribute
\* lookup on the instance; a name the class does not define raises
\* AttributeError before anything is called.
CallReload ==
    IF "reload" \in ManagerMethods
        THEN [raised |-> FALSE, type |-> "none"]
        ELSE [raised |-> TRUE, type |-> "AttributeError"]

\* The branch main() takes after setup_certificates, lines 75-87.
MainBranch(certOk) ==
    IF ~certOk THEN "setup_failed"
    ELSE IF CallReload.raised THEN "reload_raised"
    ELSE "reload_returned"

\* main, railway_init.py lines 66-90, run once at process start.
Main ==
    /\ boot.branch = "not_run"
    /\ boot.pc = "idle"
    /\ \E in \in BootInputs :
          LET s == setup_certificates(boot.certPem, boot.keyPem, boot.keyMode, in)
          IN  boot' = [certPem |-> s.certPem, keyPem |-> s.keyPem,
                       keyMode |-> s.keyMode, keyWritten |-> s.keyWritten,
                       in |-> in, pc |-> "done",
                       branch |-> MainBranch(s.ok)]
    /\ UNCHANGED <<cfgVars, mgrVars, now, ret, fsVars, loadVars, signVars>>

\* The manager's methods under single-threaded callers.  The bootstrap's
\* files play no part in them.
ApiInit == Init /\ ~boot.certPem /\ ~boot.keyPem

Next ==
    \/ WriteFile
    \/ Tick
    \/ DeleteTemp
    \/ LoadCertificate
    \/ IsValid
    \/ GetSubjectName
    \/ GetExpirationDate
    \/ GetCertificateInfo
    \/ SignData
    \/ GetCertificatePem
    \/ GetPrivateKeyPem
    \/ GetCertAndKeyFiles

Spec == ApiInit /\ [][Next]_vars

\* Process start: the container file comes and goes, the bootstrap runs
\* once, and the manager is loaded and asked to sign.
BootNext ==
    \/ WriteFile
    \/ Tick
    \/ LoadCertificate
    \/ SignData
    \/ Main

BootSpec == Init /\ [][BootNext]_vars

\* --------------------------------- file-writing operations, step by step
\* setup_certificates and get_cert_and_key_files one system call per step,
\* so that the states a file passes through between its creation and the
\* end of the operation are states of the model.

BootFrame == UNCHANGED <<cfgVars, mgrVars, now, ret, fsVars, loadVars, signVars>>

\* lines 15-27: mkdir, and the early return when both files exist
SetupStart ==
    /\ boot.branch = "not_run"
    /\ boot.pc = "idle"
    /\ boot' = [boot EXCEPT !.pc = IF boot.certPem /\ boot.keyPem
                                      THEN "ret_true" ELSE "env"]
    /\ BootFrame

\* lines 30-37 and 57-63: the two environment variables
SetupEnv ==
    /\ boot.pc = "env"
    /\ \E c \in EnvValues, k \in EnvValues :
          boot' = [boot EXCEPT !.in.certEnv = c, !.in.keyEnv = k,
                               !.pc = IF c = "unset" \/ k = "unset"
                                         THEN "ret_false" ELSE "cert"]
    /\ BootFrame

\* lines 41-42: b64decode and cert_path.write_bytes
SetupWriteCert ==
    /\ boot.pc = "cert"
    /\ \E fault \in {"none", "cert", "cert_partial"} :
          boot' = IF boot.in.certEnv = "invalid" \/ fault = "cert"
                      THEN [boot EXCEPT !.pc = "ret_false"]
                  ELSE IF fault = "cert_partial"
                      THEN [boot EXCEPT !.certPem = TRUE, !.pc = "ret_false"]
                  ELSE [boot EXCEPT !.certPem = TRUE, !.pc = "key"]
    /\ BootFrame

\* lines 46-47: b64decode and key_path.write_bytes
SetupWriteKey ==
    /\ boot.pc = "key"
    /\ \E fault \in {"none", "key", "key_partial"}, umask \in Umasks :
          LET mode == KeyModeAfterWrite(boot.keyPem, boot.keyMode, umask) IN
          boot' = IF boot.in.keyEnv = "invalid" \/ fault = "key"
                      THEN [boot EXCEPT !.pc = "ret_false"]
                  ELSE IF fault = "key_partial"
                      THEN [boot EXCEPT !.keyPem = TRUE, !.keyMode = mode,
                                        !.pc = "ret_false"]
                  ELSE [boot EXCEPT !.keyPem = TRUE, !.keyMode = mode,
                                    !.keyWritten = TRUE, !.pc = "chmod"]
    /\ BootFrame

\* line 48: os.chmod(key_path, 0o600)
SetupChmod ==
    /\ boot.pc = "chmod"
    /\ \E fault \in {"none", "chmod"} :
          boot' = IF fault = "chmod"
                      THEN [boot EXCEPT !.pc = "ret_false"]
                      ELSE [boot EXCEPT !.keyMode = "0600", !.pc = "ret_true"]
    /\ BootFrame

\* setup_certificates returns; main lines 73-90
MainAfterSetup ==
    /\ boot.pc \in {"ret_true", "ret_false"}
    /\ boot' = [boot EXCEPT !.branch = MainBranch(boot.pc = "ret_true"),
                            !.pc = "done"]
    /\ BootFrame

FilesFrame == UNCHANGED <<cfgVars, mgrVars, now, boot, loadVars, signVars>>

\* line 201: cert_fd, cert_path = tempfile.mkstemp(...)
FilesMkstempCert ==
    /\ tmpCall.pc = "idle"
    /\ Cardinality(tempFiles) + 2 <= MaxTempFiles
    /\ LET i == FreshId(UsedIds) IN
          /\ tempFiles' = tempFiles \cup {TempFile(i, EmptyPem)}
          /\ openFds' = openFds \cup {i}
          /\ tmpCall' = [tmpCall EXCEPT !.pc = "mkstemp_key", !.certId = i]
    /\ ret' = NoCall
    /\ FilesFrame

\* line 202: key_fd, key_path = tempfile.mkstemp(...)
FilesMkstempKey ==
    /\ tmpCall.pc = "mkstemp_key"
    /\ LET i == FreshId(UsedIds) IN
          /\ tempFiles' = tempFiles \cup {TempFile(i, EmptyPem)}
          /\ openFds' = openFds \cup {i}
          /\ tmpCall' = [tmpCall EXCEPT !.pc = "write_cert", !.keyId = i]
    /\ UNCHANGED ret
    /\ FilesFrame

\* The temp files with the content of file i replaced.
WithContent(files, i, content) ==
    {IF f.id = i THEN [f EXCEPT !.content = content] ELSE f : f \in files}

\* lines 206-207: the certificate PEM is written, or the export raises
FilesWriteCert ==
    /\ tmpCall.pc = "write_cert"
    /\ LET c == get_certificate_pem(certificate) IN
          IF c.kind = "raise"
              THEN /\ tmpCall' = [tmpCall EXCEPT !.pc = "finally", !.pending = c]
                   /\ UNCHANGED tempFiles
              ELSE /\ tmpCall' = [tmpCall EXCEPT !.pc = "write_key"]
                   /\ tempFiles' = WithContent(tempFiles, tmpCall.certId, c.val.pem)
    /\ UNCHANGED <<ret, openFds>>
    /\ FilesFrame

\* lines 210-211: the private key PEM is written, or the export raises
FilesWriteKey ==
    /\ tmpCall.pc = "write_key"
    /\ LET k == get_private_key_pem(private_key) IN
          IF k.kind = "raise"
              THEN /\ tmpCall' = [tmpCall EXCEPT !.pc = "finally", !.pending = k]
                   /\ UNCHANGED tempFiles
              ELSE /\ tmpCall' = [tmpCall EXCEPT !.pc = "finally"]
                   /\ tempFiles' = WithContent(tempFiles, tmpCall.keyId, k.val.pem)
    /\ UNCHANGED <<ret, openFds>>
    /\ FilesFrame

\* lines 213-219: the finally block closes both descriptors, then the call
\* returns the two paths or the pending exception propagates
FilesFinally ==
    /\ tmpCall.pc = "finally"
    /\ openFds' = openFds \ {tmpCall.certId, tmpCall.keyId}
    /\ ret' = IF tmpCall.pending.kind = "raise"
                  THEN [tmpCall.pending EXCEPT !.op = "get_cert_and_key_files"]
                  ELSE Return("get_cert_and_key_files",
                              [cert_path |-> tmpCall.certId,
                               key_path |-> tmpCall.keyId])
    /\ tmpCall' = NoTmpCall
    /\ UNCHANGED tempFiles
    /\ FilesFrame

StepNext ==
    \/ WriteFile
    \/ LoadCertificate
    \/ DeleteTemp
    \/ SetupStart
    \/ SetupEnv
    \/ SetupWriteCert
    \/ SetupWriteKey
    \/ SetupChmod
    \/ MainAfterSetup
    \/ FilesMkstempCert
    \/ FilesMkstempKey
    \/ FilesWriteCert
    \/ FilesWriteKey
    \/ FilesFinally

StepSpec == Init /\ [][StepNext]_vars

\* ------------------------------------------- two threads, step by step
\* Thread 1 runs _load_certificate, thread 2 runs sign_data.  CPython may
\* switch threads between any two attribute accesses; the class takes no
\* lock.

\* lines 38-46: read and parse the container into locals
LoadRead ==
    /\ loadPc = "idle"
    /\ LET r == ReadContainer(file, password) IN
          IF r.ok
              THEN /\ ldKey' = r.key /\ ldCert' = r.cert
                   /\ loadPc' = "l48"
                   /\ ret' = ret
              ELSE /\ ret' = LoadOutcome(file, password, certificate, private_key).ret
                   /\ UNCHANGED loadVars
    /\ UNCHANGED <<cfgVars, mgrVars, now, fsVars, boot, signVars>>

\* line 48: self._certificate = certificate
LoadSetCertificate ==
    /\ loadPc = "l48"
    /\ certificate' = ldCert
    /\ loadPc' = "l49"
    /\ UNCHANGED <<cfgVars, private_key, now, ret, fsVars, boot, ldKey, ldCert, signVars>>

\* line 49: self._private_key = private_key, then the log line and return
LoadSetPrivateKey ==
    /\ loadPc = "l49"
    /\ private_key' = ldKey
    /\ loadPc' = "idle"
    /\ ldKey' = None /\ ldCert' = None
    /\ ret' = Return("_load_certificate", [none |-> TRUE])
    /\ UNCHANGED <<cfgVars, certificate, now, fsVars, boot, signVars>>

SignFrame == UNCHANGED <<cfgVars, mgrVars, now, fsVars, boot, loadVars>>
SignRaise(type, msg) ==
    /\ ret' = Raise("sign_data", type, msg)
    /\ signPc' = "idle"
    /\ sData' = None /\ sNow' = 0 /\ sNb' = None /\ sNa' = None

\* sign_data is called
SignCall ==
    /\ signPc = "idle"
    /\ \E d \in Data : sData' = d
    /\ signPc' = "s140"
    /\ sNow' = 0 /\ sNb' = None /\ sNa' = None
    /\ ret' = ret
    /\ SignFrame

\* line 140: if not self._private_key
SignCheckKey ==
    /\ signPc = "s140"
    /\ IF private_key = None
          THEN SignRaise("ValueError", MsgKeyNotLoaded)
          ELSE /\ signPc' = "s64"
               /\ UNCHANGED <<ret, sData, sNow, sNb, sNa>>
    /\ SignFrame

\* line 143 -> is_valid line 64: if not self._certificate: return False
SignCheckCertificate ==
    /\ signPc = "s64"
    /\ IF certificate = None
          THEN SignRaise("ValueError", MsgExpired)
          ELSE /\ signPc' = "s67"
               /\ UNCHANGED <<ret, sData, sNow, sNb, sNa>>
    /\ SignFrame

\* is_valid line 67: now = datetime.now(timezone.utc)
SignReadClock ==
    /\ signPc = "s67"
    /\ sNow' = now
    /\ signPc' = "s68"
    /\ UNCHANGED <<ret, sData, sNb, sNa>>
    /\ SignFrame

\* is_valid line 68: self._certificate.not_valid_before_utc
SignReadNotBefore ==
    /\ signPc = "s68"
    /\ IF certificate = None
          THEN SignRaise("AttributeError", "not_valid_before_utc")
          ELSE /\ sNb' = certificate
               /\ signPc' = "s69"
               /\ UNCHANGED <<ret, sData, sNow, sNa>>
    /\ SignFrame

\* is_valid lines 69-78 and sign_data line 143:
\* self._certificate.not_valid_after_utc, the comparison, the raise
SignReadNotAfter ==
    /\ signPc = "s69"
    /\ IF certificate = None
          THEN SignRaise("AttributeError", "not_valid_after_utc")
          ELSE IF NotBefore(sNb) <= sNow /\ sNow <= NotAfter(certificate)
              THEN /\ sNa' = certificate
                   /\ signPc' = "s149"
                   /\ UNCHANGED <<ret, sData, sNow, sNb>>
              ELSE SignRaise("ValueError", MsgExpired)
    /\ SignFrame

\* lines 149-155: self._private_key.sign(data, PKCS1v15, SHA256)
SignSign ==
    /\ signPc = "s149"
    /\ IF private_key = None
          THEN SignRaise("AttributeError", "sign")
          ELSE /\ ret' = Return("sign_data",
                                [sig |-> <<"PKCS1v15-SHA256", private_key, sData>>])
               /\ signPc' = "idle"
               /\ UNCHANGED <<sData, sNow, sNb, sNa>>
    /\ SignFrame

ConcNext ==
    \/ WriteFile
    \/ Tick
    \/ LoadRead
    \/ LoadSetCertificate
    \/ LoadSetPrivateKey
    \/ SignCall
    \/ SignCheckKey
    \/ SignCheckCertificate
    \/ SignReadClock
    \/ SignReadNotBefore
    \/ SignReadNotAfter
    \/ SignSign

ConcSpec == ApiInit /\ [][ConcNext]_vars

\* =================================================================
\* Claims
\* =================================================================
Unloaded == certificate = None /\ private_key = None
Loaded == certificate # None /\ private_key # None
NotLoadedMsgs == {MsgCertNotLoaded, MsgKeyNotLoaded}
\* the load of this file content with this password cannot succeed
LoadMustFail(content, pw) ==
    content \in {Absent, Garbage} \/ ContainerPassword(content) # pw
SignReturned == ret.op = "sign_data" /\ ret.kind = "return"

\* C1 (as claimed): a sign_data call that produced a signature checked the
\* validity window of the certificate that belongs to the key it signed
\* with: for the valid containers A and B, the certificate objects read at
\* lines 68 and 69 and the key read at line 149 come from one container.
C1_SignUsesOneLoad ==
    (/\ signPc = "idle"
     /\ SignReturned
     /\ {sNb, sNa, ret.val.sig[2]} \subseteq FullContainers)
        => (sNb = sNa /\ sNa = ret.val.sig[2])

\* C2 (as claimed): the private key is present if and only if the
\* certificate is present, in every state between two calls.
C2_KeyIffCertificate ==
    (private_key # None) <=> (certificate # None)

\* C3: a sign_data call returns a signature only if a key is loaded and
\* the clock lies within [not_before, not_after] of the loaded certificate;
\* with the key and certificate present and the clock past not_after it
\* raises the certificate-expired error.
C3_SignOnlyWhenValid ==
    [][SignData =>
         /\ ret'.kind = "return" =>
               /\ private_key # None
               /\ certificate # None
               /\ NotBefore(certificate) <= now
               /\ now <= NotAfter(certificate)
         /\ (Loaded /\ now > NotAfter(certificate)) =>
               ret' = Raise("sign_data", "ValueError", MsgExpired)]_vars

\* C3 witness: sign_data has just refused to sign with an expired
\* certificate although the key is present.
C3_Witness ==
    /\ ret = Raise("sign_data", "ValueError", MsgExpired)
    /\ Loaded
    /\ now > NotAfter(certificate)

C5_HotReloadLoads ==
    [][(/\ Main
        /\ boot'.branch # "setup_failed"
        /\ Unloaded
        /\ file \in FullContainers
        /\ ContainerPassword(file) = password)
           => (certificate' = file /\ private_key' = file)]_vars

\* C6 (as claimed): the bootstrap's call of reload() never ends in its
\* exception handler.
C6_ReloadNeverRaises ==
    boot.branch # "reload_raised"

\* C7 (as claimed): while the manager is Unloaded, sign_data,
\* get_certificate_pem, get_private_key_pem, get_cert_and_key_files and
\* get_certificate_info all raise the not-loaded error.
C7_UnloadedAllFail ==
    [][(/\ Unloaded
        /\ \/ SignData
           \/ GetCertificatePem
           \/ GetPrivateKeyPem
           \/ GetCertAndKeyFiles
           \/ GetCertificateInfo)
           => (ret'.kind = "raise" /\ ret'.val.msg \in NotLoadedMsgs)]_vars

\* C7 (amended): while the manager is Unloaded, sign_data,
\* get_certificate_pem, get_private_key_pem and get_cert_and_key_files
\* raise the not-loaded ValueError, and get_certificate_info returns the
\* one-entry record {status: not loaded}.
C7_UnloadedAmended ==
    [][Unloaded =>
         /\ (SignData \/ GetCertificatePem \/ GetPrivateKeyPem \/ GetCertAndKeyFiles)
               => /\ ret'.kind = "raise"
                  /\ ret'.val.type = "ValueError"
                  /\ ret'.val.msg \in NotLoadedMsgs
         /\ GetCertificateInfo
               => ret' = Return("get_certificate_info",
                                [status |-> MsgCertNotLoaded])]_vars

\* C7 witness: get_certificate_info has just returned normally on an
\* Unloaded manager.
C7_Witness ==
    /\ Unloaded
    /\ ret.op = "get_certificate_info"
    /\ ret.kind = "return"

\* C8 (as claimed): whenever no certificate is loaded, a failing sign_data
\* reports the not-loaded error, never the certificate-expired one.
C8_AbsentCertificateIsNotLoaded ==
    [][(SignData /\ certificate = None)
          => ret' = Raise("sign_data", "ValueError", MsgKeyNotLoaded)]_vars

\* C9 (as claimed): loading a container that decrypts but lacks the key or
\* the certificate fails and installs nothing.
C9_IncompleteContainerRejected ==
    [][(/\ LoadCertificate
        /\ file \in Containers
        /\ ContainerPassword(file) = password
        /\ ~(HasKey(file) /\ HasCert(file)))
           => (ret'.kind = "raise" /\ UNCHANGED mgrVars)]_vars

\* C10 (as claimed): one get_certificate_info result never reports
\* is_valid = true together with days_until_expiration < 0.
C10_InfoConsistent ==
    (/\ ret.op = "get_certificate_info"
     /\ ret.kind = "return"
     /\ "is_valid" \in DOMAIN ret.val)
        => ~(ret.val.is_valid /\ ret.val.days_until_expiration < 0)

\* C11: setup_certificates returns True only if cert.pem and key.pem both
\* exist when it returns; when the files do not both exist already and an
\* environment variable is unset, or decoding or writing either file
\* fails, it returns False, main() does not call reload() and the manager
\* is left as it was (Unloaded stays Unloaded).
SetupMustFail(b, in) ==
    /\ ~(b.certPem /\ b.keyPem)
    /\ \/ in.certEnv \in {"unset", "invalid"}
       \/ in.keyEnv \in {"unset", "invalid"}
       \/ in.fault \in {"cert", "cert_partial", "key", "key_partial"}

C11_BootNeverFakesSuccess ==
    [][Main =>
         /\ boot'.branch # "setup_failed" => (boot'.certPem /\ boot'.keyPem)
         /\ SetupMustFail(boot, boot'.in) =>
               /\ boot'.branch = "setup_failed"
               /\ UNCHANGED mgrVars
               /\ Unloaded => Unloaded']_vars

\* C11 witness: cert.pem was written, writing key.pem failed, main() took
\* the failure branch and the manager is still Unloaded.
C11_Witness ==
    /\ boot.branch = "setup_failed"
    /\ boot.in.certEnv = "valid" /\ boot.in.keyEnv = "valid"
    /\ boot.in.fault = "key"
    /\ boot.certPem /\ ~boot.keyPem
    /\ Unloaded

\* C12 (as claimed): in every state, every file that holds private-key PEM
\* written by this program (a temp file of get_cert_and_key_files, or
\* certificados/key.pem written by setup_certificates) has owner-only
\* read/write permission.
HoldsKeyPem(f) == Len(f.content) > 0 /\ f.content[1] = "RSA PRIVATE KEY"

C12_KeyFilesOwnerOnly ==
    /\ \A f \in tempFiles : HoldsKeyPem(f) => OwnerOnly(f.mode)
    /\ boot.keyWritten => OwnerOnly(boot.keyMode)

\* C13: is_valid, sign_data, get_certificate_pem, get_private_key_pem,
\* get_cert_and_key_files, get_certificate_info, get_subject_name and
\* get_expiration_date leave the certificate, the key, the container at the
\* source path and the password unchanged, whether they succeed or fail.
ReadOperation ==
    \/ IsValid
    \/ SignData
    \/ GetCertificatePem
    \/ GetPrivateKeyPem
    \/ GetCertAndKeyFiles
    \/ GetCertificateInfo
    \/ GetSubjectName
    \/ GetExpirationDate

C13_ReadsKeepManagerState ==
    [][ReadOperation => UNCHANGED <<certificate, private_key, file, password>>]_vars

\* C13 witness: get_cert_and_key_files has just failed on a manager that
\* holds a certificate without a key, and the certificate is still there.
C13_Witness ==
    /\ ret.op = "get_cert_and_key_files"
    /\ ret.kind = "raise"
    /\ certificate # None
    /\ private_key = None

\* C14 (as claimed): when a get_cert_and_key_files call ends, both
\* descriptors it opened are closed; if it returns, the temp files it
\* created are the two whose paths it returns; if it fails, no temp file it
\* created remains on disk.
C14_NoOrphanTempFiles ==
    [][FilesFinally =>
         LET created == {tmpCall.certId, tmpCall.keyId}
             left == {f.id : f \in tempFiles'} \cap created
         IN  /\ openFds' \cap created = {}
             /\ ret'.kind = "return" =>
                   left = {ret'.val.cert_path, ret'.val.key_path}
             /\ ret'.kind = "raise" => left = {}]_vars

====
